---- MODULE Spec2Model ----
(***************************************************************************)
(* NeuroMorphoVis: the skinning mesh builder                               *)
(* (nmv/builders/mesh/skinning_builder.py) and the membrane mesh loader    *)
(* (neurorender/core/loading.py).                                          *)
(*                                                                         *)
(* Sequences are 1-based here and 0-based in the source: the source's      *)
(* samples[i] is samples[i + 1] below, and graph vertex k is verts[k + 1]. *)
(***************************************************************************)
EXTENDS Integers, Sequences, FiniteSets, TLC

(***************************************************************************)
(* Bounds of the model.                                                    *)
(***************************************************************************)
\* the largest number of sections of one arbor
MaxSections == 3
\* the largest number of samples of one section
MaxSamples == 3
\* the largest branching-order limit the options hold
MaxOrder == 2
\* the largest number of basal dendrites of a morphology
MaxDendrites == 2
\* the largest number of neurons of a batch handed to the loader
MaxNeurons == 3
MaxAuxiliarySamples == 5

(***************************************************************************)
(* Program constants.                                                      *)
(***************************************************************************)
\* samples_global_arbor_index = [2]
FirstArborIndex == 2
\* nmv.mesh.smooth_object(mesh_object=arbor_mesh, level=2)
SmoothLevel == 2
\* i_object.data.texspace_size[k] = 10.0
TexspaceSize == 10
\* the branching order of a root section
RootOrder == 0
\* the arbor index of a sample no index pass has reached
NoIndex == -1
\* the radius a skin vertex carries until it is written
TemporaryRadius == 0
\* the texture-space size of an object as stored in a .blend file
StoredTexspace == 1

None == "None"

(***************************************************************************)
(* Helpers on sequences.                                                   *)
(***************************************************************************)
Last(seq) == seq[Len(seq)]

Min(S) == CHOOSE m \in S : \A x \in S : m <= x

RECURSIVE SortedSeq(_)
SortedSeq(S) == IF S = {} THEN <<>> ELSE <<Min(S)>> \o SortedSeq(S \ {Min(S)})

Range(seq) == {seq[k] : k \in 1..Len(seq)}

(***************************************************************************)
(* The data model: Sample, Section, arbor (a root Section and its tree).   *)
(* An arbor is a sequence of sections, section 1 the root; every other     *)
(* section names its parent, and lists its children in order.  The first   *)
(* sample of a non-root section is a copy of its parent's last sample.     *)
(***************************************************************************)
\* the parent of every section: 0 for the root, an earlier section otherwise
Shapes(n) == {p \in [1..n -> 0..n] : p[1] = 0 /\ \A s \in 2..n : p[s] \in 1..(s - 1)}

\* the number of samples of every section; only a lone root may have none
Counts(n) == {c \in [1..n -> 0..MaxSamples] :
                 /\ (c[1] = 0 => n = 1)
                 /\ \A s \in 2..n : c[s] >= 1}

RadiusProfiles == {"uniform", "distinct"}

\* the sample a sample copies: itself, unless it is the first of a non-root section
RECURSIVE Original(_, _, _, _)
Original(p, c, s, i) ==
    IF i = 1 /\ p[s] # 0 THEN Original(p, c, p[s], c[p[s]]) ELSE <<s, i>>

SamplePoint(p, c, s, i) == <<"sample", Original(p, c, s, i)[1], Original(p, c, s, i)[2]>>

SampleRadius(prof, p, c, s, i) ==
    IF prof = "uniform" THEN 1
    ELSE Original(p, c, s, i)[1] * (MaxSamples + 1) + Original(p, c, s, i)[2]

RECURSIVE BranchingOrder(_, _)
BranchingOrder(p, s) == IF p[s] = 0 THEN RootOrder ELSE BranchingOrder(p, p[s]) + 1

MakeSection(prof, p, c, s) ==
    [samples |-> [i \in 1..c[s] |-> [point |-> SamplePoint(p, c, s, i),
                                     radius |-> SampleRadius(prof, p, c, s, i),
                                     arbor_idx |-> NoIndex]],
     parent |-> p[s],
     children |-> SortedSeq({k \in DOMAIN p : p[k] = s}),
     branching_order |-> BranchingOrder(p, s)]

MakeArbor(prof, p, c) ==
    [sections |-> [s \in DOMAIN p |-> MakeSection(prof, p, c, s)], mesh |-> None]

Arbors(maxSections) ==
    {MakeArbor(prof, p, c) : <<prof, p, c>> \in
        UNION {RadiusProfiles \X Shapes(n) \X Counts(n) : n \in 1..maxSections}}

is_root(section) == section.parent = 0

(***************************************************************************)
(* nmv.builders.update_samples_indices_per_arbor: the pre-order index pass *)
(* over the sections within the branching-order limit.  A root section     *)
(* takes a fresh index for its first sample; the first sample of any other *)
(* section takes the index of its parent's last sample.                    *)
(***************************************************************************)
RECURSIVE update_samples_indices_per_arbor(_, _, _, _)
RECURSIVE update_samples_indices_of_children(_, _, _, _)

update_samples_indices_per_arbor(secs, s, index, L) ==
    IF secs[s].branching_order > L
    THEN [sections |-> secs, index |-> index, raised |-> None]
    ELSE IF Len(secs[s].samples) = 0
    THEN [sections |-> secs, index |-> index, raised |-> "IndexError"]
    ELSE LET root == is_root(secs[s])
             first == IF root THEN index
                      ELSE Last(secs[secs[s].parent].samples).arbor_idx
             next == IF root THEN index + 1 ELSE index
             n == Len(secs[s].samples)
             updated == [i \in 1..n |->
                            [secs[s].samples[i] EXCEPT
                                !.arbor_idx = IF i = 1 THEN first ELSE next + (i - 2)]]
             secs1 == [secs EXCEPT ![s].samples = updated]
         IN update_samples_indices_of_children(secs1, secs[s].children, next + (n - 1), L)

update_samples_indices_of_children(secs, kids, index, L) ==
    IF kids = <<>>
    THEN [sections |-> secs, index |-> index, raised |-> None]
    ELSE LET r == update_samples_indices_per_arbor(secs, Head(kids), index, L)
         IN IF r.raised # None THEN r
            ELSE update_samples_indices_of_children(r.sections, Tail(kids), r.index, L)

(***************************************************************************)
(* nmv.bmeshi: the skeletal graph.                                         *)
(***************************************************************************)
Origin == <<"origin", 0, 0>>

\* arbor.samples[0].point - 0.01 * direction: a point just short of the sample
Near(point) == <<"near", point[2], point[3]>>

create_vertex == [verts |-> <<Origin>>, edges |-> <<>>]

\* appends one vertex and the edge to it; earlier indices are kept; a negative
\* index counts from the end of verts, as a Python sequence does
extrude_vertex_towards_point(g, idx, point) ==
    LET n == Len(g.verts)
    IN IF idx \in (-n)..(n - 1)
       THEN [raised |-> None,
             graph |-> [verts |-> Append(g.verts, point),
                        edges |-> Append(g.edges,
                                         <<IF idx < 0 THEN n + idx ELSE idx, n>>)]]
       ELSE [raised |-> "IndexError", graph |-> g]

(***************************************************************************)
(* SkinningBuilder: the traversals.  Each returns, in the order the        *)
(* recursion makes them, the calls it makes on the graph or the mesh.      *)
(***************************************************************************)
\* extrude_section with the extrusion started at the sample it is meant to reach
extrude_section_from_target(s, section) ==
    [k \in 1..(Len(section.samples) - 1) |->
        [section |-> s, i |-> k - 1,
         idx |-> section.samples[k + 1].arbor_idx,
         point |-> section.samples[k + 1].point]]

\* for i in range(len(section.samples) - 1):
\*     extrude_vertex_towards_point(bmesh, samples[i].arbor_idx, samples[i + 1].point)
extrude_section(s, section) ==
    [k \in 1..(Len(section.samples) - 1) |->
        [section |-> s, i |-> k - 1,
         idx |-> section.samples[k].arbor_idx,
         point |-> section.samples[k + 1].point]]

RECURSIVE extrude_arbor(_, _, _)
RECURSIVE extrude_arbor_children(_, _, _)

extrude_arbor(secs, root, max_branching_order) ==
    IF secs[root].branching_order > max_branching_order
    THEN <<>>
    ELSE extrude_section(root, secs[root])
            \o extrude_arbor_children(secs, secs[root].children, max_branching_order)

extrude_arbor_children(secs, kids, max_branching_order) ==
    IF kids = <<>> THEN <<>>
    ELSE extrude_arbor(secs, Head(kids), max_branching_order)
            \o extrude_arbor_children(secs, Tail(kids), max_branching_order)

\* starting_index = 0 if section.is_root() else 1
starting_index(section) == IF is_root(section) THEN 0 ELSE 1

\* for i in range(starting_index, len(section.samples)):
\*     skin_vertices[0].data[samples[i].arbor_idx].radius = radius, radius
update_section_samples_radii(s, section) ==
    [k \in 1..(Len(section.samples) - starting_index(section)) |->
        [section |-> s, i |-> starting_index(section) + k - 1,
         idx |-> section.samples[starting_index(section) + k].arbor_idx,
         radius |-> <<section.samples[starting_index(section) + k].radius,
                      section.samples[starting_index(section) + k].radius>>]]

RECURSIVE update_arbor_samples_radii(_, _, _)
RECURSIVE update_arbor_samples_radii_children(_, _, _)

update_arbor_samples_radii(secs, root, max_branching_order) ==
    IF secs[root].branching_order > max_branching_order
    THEN <<>>
    ELSE update_section_samples_radii(root, secs[root])
            \o update_arbor_samples_radii_children(secs, secs[root].children,
                                                   max_branching_order)

update_arbor_samples_radii_children(secs, kids, max_branching_order) ==
    IF kids = <<>> THEN <<>>
    ELSE update_arbor_samples_radii(secs, Head(kids), max_branching_order)
            \o update_arbor_samples_radii_children(secs, Tail(kids), max_branching_order)

(***************************************************************************)
(* Host mesh objects.                                                      *)
(***************************************************************************)
\* nmv.bmeshi.convert_bmesh_to_mesh: a mesh object of the graph, no modifier yet
convert_bmesh_to_mesh(g, name) ==
    [name |-> name, verts |-> g.verts, edges |-> g.edges,
     modifiers |-> {}, skin_vertices |-> <<>>,
     skinned |-> FALSE, surface |-> <<>>,
     smooth_level |-> 0, shade_smooth |-> FALSE, material |-> None]

\* modifiers.new(name="Skin", type='SKIN'): a skin layer, one radius pair per vertex
new_skin_modifier(mesh) ==
    [mesh EXCEPT !.modifiers = @ \cup {"Skin"},
                 !.skin_vertices = [k \in 1..Len(mesh.verts) |->
                                       <<TemporaryRadius, TemporaryRadius>>]]

\* skin_vertices[0].data[idx].radius = radius; a negative index counts from
\* the end of the collection, as a Python sequence does
set_skin_radius(mesh, idx, radius) ==
    LET n == Len(mesh.skin_vertices)
    IN IF idx \in 0..(n - 1)
       THEN [raised |-> None, mesh |-> [mesh EXCEPT !.skin_vertices[idx + 1] = radius]]
       ELSE IF idx \in (-n)..(-1)
       THEN [raised |-> None, mesh |-> [mesh EXCEPT !.skin_vertices[n + idx + 1] = radius]]
       ELSE [raised |-> "IndexError", mesh |-> mesh]

\* bpy.ops.object.modifier_apply(apply_as='DATA', modifier="Skin"): the surface
\* is computed from the radii the skin vertices carry at this moment
modifier_apply(mesh) ==
    [mesh EXCEPT !.modifiers = @ \ {"Skin"}, !.skinned = TRUE,
                 !.surface = mesh.skin_vertices]

(***************************************************************************)
(* The state.                                                              *)
(***************************************************************************)
VARIABLES
    \* SkinningBuilder
    morphology,      \* apical_dendrite, dendrites, axon: the arbors (None: absent)
    options,         \* options.morphology: the ignore flags and branch orders
    bpc,             \* the position of build_arbors
    dend_i,          \* the basal dendrite build_arbors is at
    frame,           \* the arguments of the running create_arbor_mesh
    cpc,             \* the position of create_arbor_mesh
    bmesh,           \* arbor_bmesh_object, the skeletal graph
    arbor_mesh,      \* the name of the mesh object create_arbor_mesh made
    extrusions,      \* the extrusions extrude_arbor has still to make
    radius_updates,  \* the writes update_arbor_samples_radii has still to make
    scene,           \* the mesh objects of the scene, by name
    active_object,   \* the scene's active object
    raised,          \* the exception that left build_arbors, if any
    log,             \* what nmv.logger was given
    \* neurorender loader
    neurons,         \* neurons_list: gid and membrane_meshes of each neuron
    input_type,      \* the format asked for
    files,           \* the files of input_directory
    loaded,          \* the objects the loader put in the scene
    imports,         \* the host import primitives called, with their file
    printed,         \* what the loader printed
    neuron_i,        \* the neuron the loader is at
    lpc,             \* the position of the loader: in its loop, or returned
    \* SkinningBuilder.verify_morphology_skeleton
    edges,           \* options.mesh.edges
    vpc,             \* the position of verify_morphology_skeleton
    operations,      \* the nmv.skeleton.ops applied to the morphology, in order
    \* SkinningBuilder.reconstruct_mesh
    materials,       \* apical_dendrites_materials, basal_dendrites_materials, axon_materials
    rpc              \* the position of reconstruct_mesh

builder_vars == <<morphology, options, bpc, dend_i, frame, cpc, bmesh, arbor_mesh,
                  extrusions, radius_updates, scene, active_object, raised, log>>
loader_vars == <<neurons, input_type, files, loaded, imports, printed, neuron_i, lpc>>
verify_vars == <<edges, vpc, operations>>
reconstruct_vars == <<materials, rpc>>
vars == <<builder_vars, loader_vars, verify_vars, reconstruct_vars>>

NoGraph == [verts |-> <<>>, edges |-> <<>>]
NoFrame == [slot |-> None, i |-> 0, max_branching_order |-> 0,
            arbor_name |-> None, arbor_material |-> None]

\* the arbor a frame is about, and the morphology with that arbor replaced
ArborOf(m, f) ==
    CASE f.slot = "apical" -> m.apical_dendrite[1]
      [] f.slot = "basal" -> m.dendrites[f.i + 1]
      [] f.slot = "axon" -> m.axon[1]

WithArbor(m, f, a) ==
    CASE f.slot = "apical" -> [m EXCEPT !.apical_dendrite = <<a>>]
      [] f.slot = "basal" -> [m EXCEPT !.dendrites[f.i + 1] = a]
      [] f.slot = "axon" -> [m EXCEPT !.axon = <<a>>]

\* a material list: None, as __init__ leaves it, or a list of materials
NoMaterials == [kind |-> "None", items |-> <<>>]
MaterialsList(items) == [kind |-> "list", items |-> items]

\* the three lists as SkinningBuilder.__init__ leaves them
UnsetMaterials ==
    [apical_dendrites_materials |-> NoMaterials,
     basal_dendrites_materials |-> NoMaterials,
     axon_materials |-> NoMaterials]

\* the three lists empty
EmptyMaterials ==
    [apical_dendrites_materials |-> MaterialsList(<<>>),
     basal_dendrites_materials |-> MaterialsList(<<>>),
     axon_materials |-> MaterialsList(<<>>)]

\* nmv.builders.common.create_skeleton_materials(builder=self): every list set,
\* with a material at [0]
SkeletonMaterials ==
    [apical_dendrites_materials |-> MaterialsList(<<"apical_dendrites_materials[0]">>),
     basal_dendrites_materials |-> MaterialsList(<<"basal_dendrites_materials[0]">>),
     axon_materials |-> MaterialsList(<<"axon_materials[0]">>)]

\* list[0]: TypeError on None, IndexError on an empty list
FirstMaterial(list) ==
    IF list.kind = "None" THEN [raised |-> "TypeError", material |-> None]
    ELSE IF list.items = <<>> THEN [raised |-> "IndexError", material |-> None]
    ELSE [raised |-> None, material |-> list.items[1]]

\* an exception raised in build_arbors while it evaluates the arguments of
\* create_arbor_mesh: the call is not made, and build_arbors is left
RaiseBeforeCall(e) ==
    /\ raised' = e
    /\ bpc' = "raised"
    /\ UNCHANGED <<frame, cpc, bmesh, arbor_mesh>>

\* a build_arbors that catches the exception and goes on to attach what
\* create_arbor_mesh had made so far
RaiseAndAttach(e) ==
    /\ raised' = e
    /\ cpc' = "return"
    /\ bpc' = bpc

\* an exception no handler catches leaves create_arbor_mesh and build_arbors
Raise(e) ==
    /\ raised' = e
    /\ cpc' = "raised"
    /\ bpc' = "raised"

(***************************************************************************)
(* build_arbors                                                            *)
(***************************************************************************)
\* nmv.logger.header('Building Arbors')
BuildArbors ==
    /\ bpc = "start"
    /\ bpc' = "apical"
    /\ log' = Append(log, "Building Arbors")
    /\ UNCHANGED <<morphology, options, dend_i, frame, cpc, bmesh, arbor_mesh,
                   extrusions, radius_updates, scene, active_object, raised>>
    /\ UNCHANGED <<loader_vars, verify_vars, reconstruct_vars>>

\* the call of create_arbor_mesh: its arguments, and its locals not yet set
Call(slot, i, order, name, material) ==
    /\ frame' = [slot |-> slot, i |-> i, max_branching_order |-> order,
                 arbor_name |-> name, arbor_material |-> material]
    /\ cpc' = "indices"
    /\ bmesh' = NoGraph
    /\ arbor_mesh' = None
    /\ UNCHANGED <<bpc, raised>>

\* the call of create_arbor_mesh with arbor_material=list[0]
CallWithMaterial(slot, i, order, name, list) ==
    IF FirstMaterial(list).raised # None
    THEN RaiseBeforeCall(FirstMaterial(list).raised)
    ELSE Call(slot, i, order, name, FirstMaterial(list).material)

ApicalDendrite ==
    /\ bpc = "apical" /\ cpc = "idle"
    /\ IF options.ignore_apical_dendrite
       THEN /\ bpc' = "basal"
            /\ UNCHANGED <<frame, cpc, bmesh, arbor_mesh, log, raised>>
       ELSE /\ log' = Append(log, "Apical dendrite")
            /\ IF morphology.apical_dendrite # <<>>
               THEN CallWithMaterial("apical", 0, options.apical_dendrite_branch_order,
                                     "APICAL_DENDRITES_PREFIX",
                                     materials.apical_dendrites_materials)
               ELSE /\ bpc' = "basal"
                    /\ UNCHANGED <<frame, cpc, bmesh, arbor_mesh, raised>>
    /\ UNCHANGED <<morphology, options, dend_i, extrusions, radius_updates, scene,
                   active_object>>
    /\ UNCHANGED <<loader_vars, verify_vars, reconstruct_vars>>

BasalDendrites ==
    /\ bpc = "basal" /\ cpc = "idle"
    /\ IF options.ignore_basal_dendrites \/ dend_i >= Len(morphology.dendrites)
       THEN /\ bpc' = "axon"
            /\ UNCHANGED <<frame, cpc, bmesh, arbor_mesh, log, raised>>
       ELSE /\ log' = Append(log, "Dendrite [" \o ToString(dend_i) \o "]")
            /\ CallWithMaterial("basal", dend_i, options.basal_dendrites_branch_order,
                                "BASAL_DENDRITES_PREFIX_" \o ToString(dend_i),
                                materials.basal_dendrites_materials)
    /\ UNCHANGED <<morphology, options, dend_i, extrusions, radius_updates, scene,
                   active_object>>
    /\ UNCHANGED <<loader_vars, verify_vars, reconstruct_vars>>

Axon ==
    /\ bpc = "axon" /\ cpc = "idle"
    /\ IF options.ignore_axon
       THEN /\ bpc' = "done"
            /\ UNCHANGED <<frame, cpc, bmesh, arbor_mesh, log, raised>>
       ELSE IF morphology.axon # <<>>
       THEN /\ log' = Append(log, "Axon")
            /\ CallWithMaterial("axon", 0, options.axon_branch_order,
                                "AXON_PREFIX", materials.axon_materials)
       ELSE /\ bpc' = "done"
            /\ UNCHANGED <<frame, cpc, bmesh, arbor_mesh, log, raised>>
    /\ UNCHANGED <<morphology, options, dend_i, extrusions, radius_updates, scene,
                   active_object>>
    /\ UNCHANGED <<loader_vars, verify_vars, reconstruct_vars>>

\* return arbor_mesh, and the assignment of the reference: <arbor>.mesh = arbor_mesh
AttachMesh ==
    /\ cpc = "return"
    /\ morphology' = WithArbor(morphology, frame,
                               [ArborOf(morphology, frame) EXCEPT !.mesh = arbor_mesh])
    /\ cpc' = "idle"
    /\ bpc' = CASE frame.slot = "apical" -> "basal"
                [] frame.slot = "basal" -> "basal"
                [] frame.slot = "axon" -> "done"
    /\ dend_i' = IF frame.slot = "basal" THEN dend_i + 1 ELSE dend_i
    /\ UNCHANGED <<options, frame, bmesh, arbor_mesh, extrusions, radius_updates,
                   scene, active_object, raised, log>>
    /\ UNCHANGED <<loader_vars, verify_vars, reconstruct_vars>>

(***************************************************************************)
(* create_arbor_mesh, statement by statement.                              *)
(***************************************************************************)
\* the statements of create_arbor_mesh in the order of the source:
\*   indices       update_samples_indices_per_arbor(arbor, [2], max_branching_order)
\*   create_vertex nmv.bmeshi.create_vertex()
\*   auxiliary_0   extrude_vertex_towards_point(bmesh, 0, p0)
\*   auxiliary_1   extrude_vertex_towards_point(bmesh, 1, arbor.samples[0].point)
\*   extrude       self.extrude_arbor(...)
\*   convert       nmv.bmeshi.convert_bmesh_to_mesh(...)
\*   skin          arbor_mesh.modifiers.new(name="Skin", type='SKIN'); set_active_object
\*   radius_0      skin_vertices[0].data[0].radius = ...
\*   radius_1      skin_vertices[0].data[1].radius = ...
\*   radii         self.update_arbor_samples_radii(...)
\*   apply         bpy.ops.object.modifier_apply(apply_as='DATA', modifier="Skin")
\*   smooth, shade_smooth, material, return
NextStatementApplyFirst(pc) ==
    CASE pc = "indices" -> "create_vertex"
      [] pc = "create_vertex" -> "auxiliary_0"
      [] pc = "auxiliary_0" -> "auxiliary_1"
      [] pc = "auxiliary_1" -> "extrude"
      [] pc = "extrude" -> "convert"
      [] pc = "convert" -> "skin"
      [] pc = "skin" -> "apply"
      [] pc = "apply" -> "radius_0"
      [] pc = "radius_0" -> "radius_1"
      [] pc = "radius_1" -> "radii"
      [] pc = "radii" -> "smooth"
      [] pc = "smooth" -> "shade_smooth"
      [] pc = "shade_smooth" -> "material"
      [] pc = "material" -> "return"

NextStatement(pc) ==
    CASE pc = "indices" -> "create_vertex"
      [] pc = "create_vertex" -> "auxiliary_0"
      [] pc = "auxiliary_0" -> "auxiliary_1"
      [] pc = "auxiliary_1" -> "extrude"
      [] pc = "extrude" -> "convert"
      [] pc = "convert" -> "skin"
      [] pc = "skin" -> "radius_0"
      [] pc = "radius_0" -> "radius_1"
      [] pc = "radius_1" -> "radii"
      [] pc = "radii" -> "apply"
      [] pc = "apply" -> "smooth"
      [] pc = "smooth" -> "shade_smooth"
      [] pc = "shade_smooth" -> "material"
      [] pc = "material" -> "return"

Sections == ArborOf(morphology, frame).sections

\* samples_global_arbor_index = [2]; update_samples_indices_per_arbor(arbor, ...)
UpdateSamplesIndices ==
    /\ cpc = "indices"
    /\ LET r == update_samples_indices_per_arbor(Sections, 1, FirstArborIndex,
                                                 frame.max_branching_order)
       IN /\ morphology' = WithArbor(morphology, frame,
                  [ArborOf(morphology, frame) EXCEPT !.sections = r.sections])
          /\ IF r.raised # None
             THEN Raise(r.raised)
             ELSE /\ cpc' = NextStatement(cpc)
                  /\ UNCHANGED <<bpc, raised>>
    /\ UNCHANGED <<options, dend_i, frame, bmesh, arbor_mesh, extrusions,
                   radius_updates, scene, active_object, log>>
    /\ UNCHANGED <<loader_vars, verify_vars, reconstruct_vars>>

\* arbor_bmesh_object = nmv.bmeshi.create_vertex()
CreateVertex ==
    /\ cpc = "create_vertex"
    /\ bmesh' = create_vertex
    /\ cpc' = NextStatement(cpc)
    /\ UNCHANGED <<morphology, options, bpc, dend_i, frame, arbor_mesh, extrusions,
                   radius_updates, scene, active_object, raised, log>>
    /\ UNCHANGED <<loader_vars, verify_vars, reconstruct_vars>>

\* the two auxiliary extrusions: from vertex 0 to p0, from vertex 1 to
\* arbor.samples[0].point
auxiliary_extrusions(arbor_sections) ==
    <<[idx |-> 0, point |-> Near(arbor_sections[1].samples[1].point)],
      [idx |-> 1, point |-> arbor_sections[1].samples[1].point]>>

\* direction = arbor.samples[0].point.normalized(); p0 = ...;
\* extrude_vertex_towards_point(arbor_bmesh_object, 0, p0)
\* extrude_vertex_towards_point(arbor_bmesh_object, 1, arbor.samples[0].point)
\* and, after the second, the call of extrude_arbor
ExtrudeAuxiliary(k) ==
    /\ cpc = IF k = 0 THEN "auxiliary_0" ELSE "auxiliary_1"
    /\ IF Len(Sections[1].samples) = 0
       THEN /\ Raise("IndexError")
            /\ UNCHANGED <<bmesh, extrusions>>
       ELSE LET call == auxiliary_extrusions(Sections)[k + 1]
                r == extrude_vertex_towards_point(bmesh, call.idx, call.point)
            IN IF r.raised # None
               THEN /\ Raise(r.raised)
                    /\ UNCHANGED <<bmesh, extrusions>>
               ELSE /\ bmesh' = r.graph
                    /\ cpc' = NextStatement(cpc)
                    /\ extrusions' = IF k = 0 THEN extrusions
                                     ELSE extrude_arbor(Sections, 1,
                                                        frame.max_branching_order)
                    /\ UNCHANGED <<bpc, raised>>
    /\ UNCHANGED <<morphology, options, dend_i, frame, arbor_mesh, radius_updates,
                   scene, active_object, log>>
    /\ UNCHANGED <<loader_vars, verify_vars, reconstruct_vars>>

\* self.extrude_arbor(...): one extrusion, or its return when none is left
ExtrudeArbor ==
    /\ cpc = "extrude"
    /\ IF extrusions = <<>>
       THEN /\ cpc' = NextStatement(cpc)
            /\ UNCHANGED <<bmesh, extrusions, bpc, raised>>
       ELSE LET call == Head(extrusions)
                r == extrude_vertex_towards_point(bmesh, call.idx, call.point)
            IN IF r.raised # None
               THEN /\ Raise(r.raised)
                    /\ UNCHANGED <<bmesh, extrusions>>
               ELSE /\ bmesh' = r.graph
                    /\ extrusions' = Tail(extrusions)
                    /\ UNCHANGED <<cpc, bpc, raised>>
    /\ UNCHANGED <<morphology, options, dend_i, frame, arbor_mesh, radius_updates,
                   scene, active_object, log>>
    /\ UNCHANGED <<loader_vars, verify_vars, reconstruct_vars>>

\* arbor_mesh = nmv.bmeshi.convert_bmesh_to_mesh(arbor_bmesh_object, arbor_name)
ConvertBmeshToMesh ==
    /\ cpc = "convert"
    /\ scene' = (frame.arbor_name :> convert_bmesh_to_mesh(bmesh, frame.arbor_name)) @@ scene
    /\ arbor_mesh' = frame.arbor_name
    /\ cpc' = NextStatement(cpc)
    /\ UNCHANGED <<morphology, options, bpc, dend_i, frame, bmesh, extrusions,
                   radius_updates, active_object, raised, log>>
    /\ UNCHANGED <<loader_vars, verify_vars, reconstruct_vars>>

\* arbor_mesh.modifiers.new(name="Skin", type='SKIN'); set_active_object(arbor_mesh)
AddSkinModifier ==
    /\ cpc = "skin"
    /\ scene' = [scene EXCEPT ![arbor_mesh] = new_skin_modifier(@)]
    /\ active_object' = arbor_mesh
    /\ cpc' = NextStatement(cpc)
    /\ UNCHANGED <<morphology, options, bpc, dend_i, frame, bmesh, arbor_mesh,
                   extrusions, radius_updates, raised, log>>
    /\ UNCHANGED <<loader_vars, verify_vars, reconstruct_vars>>

\* the radius given to the auxiliary vertices: that of the arbor's first sample
auxiliary_radius(arbor_sections) ==
    <<arbor_sections[1].samples[1].radius, arbor_sections[1].samples[1].radius>>

\* vertex = arbor_mesh.data.skin_vertices[0].data[k]; vertex.radius = ...  (k = 0, 1)
\* and, after the second, the call of update_arbor_samples_radii
SetAuxiliaryRadius(k) ==
    /\ cpc = IF k = 0 THEN "radius_0" ELSE "radius_1"
    /\ LET r == set_skin_radius(scene[arbor_mesh], k, auxiliary_radius(Sections))
       IN IF r.raised # None
          THEN /\ Raise(r.raised)
               /\ UNCHANGED <<scene, radius_updates>>
          ELSE /\ scene' = [scene EXCEPT ![arbor_mesh] = r.mesh]
               /\ cpc' = NextStatement(cpc)
               /\ radius_updates' =
                      IF k = 0 THEN radius_updates
                      ELSE update_arbor_samples_radii(Sections, 1,
                                                      frame.max_branching_order)
               /\ UNCHANGED <<bpc, raised>>
    /\ UNCHANGED <<morphology, options, dend_i, frame, bmesh, arbor_mesh, extrusions,
                   active_object, log>>
    /\ UNCHANGED <<loader_vars, verify_vars, reconstruct_vars>>

\* self.update_arbor_samples_radii(...): one write, or its return when none is left
UpdateSamplesRadii ==
    /\ cpc = "radii"
    /\ IF radius_updates = <<>>
       THEN /\ cpc' = NextStatement(cpc)
            /\ UNCHANGED <<scene, radius_updates, bpc, raised>>
       ELSE LET w == Head(radius_updates)
                r == set_skin_radius(scene[arbor_mesh], w.idx, w.radius)
            IN IF r.raised # None
               THEN /\ Raise(r.raised)
                    /\ UNCHANGED <<scene, radius_updates>>
               ELSE /\ scene' = [scene EXCEPT ![arbor_mesh] = r.mesh]
                    /\ radius_updates' = Tail(radius_updates)
                    /\ UNCHANGED <<cpc, bpc, raised>>
    /\ UNCHANGED <<morphology, options, dend_i, frame, bmesh, arbor_mesh, extrusions,
                   active_object, log>>
    /\ UNCHANGED <<loader_vars, verify_vars, reconstruct_vars>>

\* bpy.ops.object.modifier_apply(apply_as='DATA', modifier="Skin"), on the active
\* object; the host either applies the modifier or signals an error
ApplyModifier ==
    /\ cpc = "apply"
    /\ \E host_ok \in BOOLEAN :
          IF host_ok
          THEN /\ scene' = [scene EXCEPT ![active_object] = modifier_apply(@)]
               /\ cpc' = NextStatement(cpc)
               /\ UNCHANGED <<bpc, raised>>
          ELSE /\ Raise("RuntimeError")
               /\ UNCHANGED scene
    /\ UNCHANGED <<morphology, options, dend_i, frame, bmesh, arbor_mesh, extrusions,
                   radius_updates, active_object, log>>
    /\ UNCHANGED <<loader_vars, verify_vars, reconstruct_vars>>

\* nmv.mesh.smooth_object(mesh_object=arbor_mesh, level=2)
SmoothObject ==
    /\ cpc = "smooth"
    /\ scene' = [scene EXCEPT ![arbor_mesh].smooth_level = SmoothLevel]
    /\ cpc' = NextStatement(cpc)
    /\ UNCHANGED <<morphology, options, bpc, dend_i, frame, bmesh, arbor_mesh,
                   extrusions, radius_updates, active_object, raised, log>>
    /\ UNCHANGED <<loader_vars, verify_vars, reconstruct_vars>>

\* nmv.mesh.shade_smooth_object(arbor_mesh)
ShadeSmoothObject ==
    /\ cpc = "shade_smooth"
    /\ scene' = [scene EXCEPT ![arbor_mesh].shade_smooth = TRUE]
    /\ cpc' = NextStatement(cpc)
    /\ UNCHANGED <<morphology, options, bpc, dend_i, frame, bmesh, arbor_mesh,
                   extrusions, radius_updates, active_object, raised, log>>
    /\ UNCHANGED <<loader_vars, verify_vars, reconstruct_vars>>

\* nmv.shading.set_material_to_object(arbor_mesh, arbor_material)
SetMaterial ==
    /\ cpc = "material"
    /\ scene' = [scene EXCEPT ![arbor_mesh].material = frame.arbor_material]
    /\ cpc' = NextStatement(cpc)
    /\ UNCHANGED <<morphology, options, bpc, dend_i, frame, bmesh, arbor_mesh,
                   extrusions, radius_updates, active_object, raised, log>>
    /\ UNCHANGED <<loader_vars, verify_vars, reconstruct_vars>>

(***************************************************************************)
(* The builder's specifications.                                           *)
(***************************************************************************)
Orders == (RootOrder - 1)..MaxOrder

InitLoaderIdle ==
    /\ neurons = <<>>
    /\ input_type = "blend"
    /\ files = {}
    /\ loaded = <<>>
    /\ imports = <<>>
    /\ printed = <<>>
    /\ neuron_i = 0
    /\ lpc = "returned"

\* verify_morphology_skeleton is not running
InitVerifyIdle ==
    /\ edges = "SHARP"
    /\ vpc = "returned"
    /\ operations = <<>>

\* reconstruct_mesh is not running
InitReconstructIdle == rpc = "idle"

\* the builder with no call of create_arbor_mesh made yet
InitBuilderState ==
    /\ dend_i = 0
    /\ frame = NoFrame
    /\ cpc = "idle"
    /\ bmesh = NoGraph
    /\ arbor_mesh = None
    /\ extrusions = <<>>
    /\ radius_updates = <<>>
    /\ scene = <<>>
    /\ active_object = None
    /\ raised = None
    /\ log = <<>>

\* build_arbors is called
InitBuilder ==
    /\ bpc = "start"
    /\ InitBuilderState

\* a morphology of one basal dendrite, any arbor within the bounds
Init ==
    /\ InitBuilder
    /\ InitLoaderIdle
    /\ InitVerifyIdle
    /\ InitReconstructIdle
    /\ materials \in {UnsetMaterials, SkeletonMaterials}
    /\ \E a \in Arbors(MaxSections) :
          morphology = [apical_dendrite |-> <<>>, dendrites |-> <<a>>, axon |-> <<>>]
    /\ \E L \in Orders :
          options = [ignore_apical_dendrite |-> FALSE,
                     ignore_basal_dendrites |-> FALSE,
                     ignore_axon |-> FALSE,
                     apical_dendrite_branch_order |-> L,
                     basal_dendrites_branch_order |-> L,
                     axon_branch_order |-> L]

Next ==
    \/ BuildArbors
    \/ ApicalDendrite
    \/ BasalDendrites
    \/ Axon
    \/ UpdateSamplesIndices
    \/ CreateVertex
    \/ \E k \in {0, 1} : ExtrudeAuxiliary(k)
    \/ ExtrudeArbor
    \/ ConvertBmeshToMesh
    \/ AddSkinModifier
    \/ \E k \in {0, 1} : SetAuxiliaryRadius(k)
    \/ UpdateSamplesRadii
    \/ ApplyModifier
    \/ SmoothObject
    \/ ShadeSmoothObject
    \/ SetMaterial
    \/ AttachMesh

Spec == Init /\ [][Next]_vars

(***************************************************************************)
(* What the claims speak of.                                               *)
(***************************************************************************)
\* create_arbor_mesh has been called (the frame holds its arguments)
InCall == frame.slot # None

Limit == frame.max_branching_order

\* the pruned tree: the sections within the limit whose ancestors all are
RECURSIVE WithinLimit(_, _, _)
WithinLimit(secs, s, L) ==
    /\ secs[s].branching_order <= L
    /\ (secs[s].parent = 0 \/ WithinLimit(secs, secs[s].parent, L))

PrunedTree(secs, L) == {s \in DOMAIN secs : WithinLimit(secs, s, L)}

\* the samples a visit of a section counts: all of a root's, all but the first otherwise
VisitedSampleCount(section) ==
    IF is_root(section) THEN Len(section.samples) ELSE Len(section.samples) - 1

RECURSIVE SumVisited(_, _)
SumVisited(secs, S) ==
    IF S = {} THEN 0
    ELSE LET s == CHOOSE x \in S : TRUE
         IN VisitedSampleCount(secs[s]) + SumVisited(secs, S \ {s})

\* the samples of the pruned tree, as <<section, position>> (positions from 1)
PrunedSamples(secs, L) ==
    {<<s, k>> \in (DOMAIN secs) \X (1..MaxSamples + 1) :
        s \in PrunedTree(secs, L) /\ k <= Len(secs[s].samples)}

\* positions of create_arbor_mesh after extrude_arbor has returned
AfterExtrusion == {"convert", "skin", "radius_0", "radius_1", "radii", "apply",
                   "smooth", "shade_smooth", "material", "return"}

\* every edge joins an earlier vertex to the vertex its extrusion created
IsTree(g) ==
    /\ Len(g.edges) = Len(g.verts) - 1
    /\ \A k \in 1..Len(g.edges) : g.edges[k][2] = k /\ g.edges[k][1] \in 0..(k - 1)

\* the mesh object of the running call, once it exists
HasMesh == arbor_mesh # None
Mesh == scene[arbor_mesh]

(***************************************************************************)
(* The claims about create_arbor_mesh, under Spec.                         *)
(***************************************************************************)
\* C1: once create_vertex, the two auxiliary extrusions and extrude_arbor have
\* run, the graph has 2 + (the sum over the sections of the pruned tree of their
\* visited-sample counts) vertices, and its edges form a tree.
C1_VertexCountAndTree ==
    (InCall /\ cpc \in AfterExtrusion) =>
        /\ Len(bmesh.verts) = 2 + SumVisited(Sections, PrunedTree(Sections, Limit))
        /\ IsTree(bmesh)

\* what holds of C1: the same, for a limit that does not prune the root section
C1_WhenRootWithinLimit ==
    (InCall /\ cpc \in AfterExtrusion /\ Sections[1].branching_order <= Limit) =>
        /\ Len(bmesh.verts) = 2 + SumVisited(Sections, PrunedTree(Sections, Limit))
        /\ IsTree(bmesh)

\* positions of create_arbor_mesh after the index pass has returned
AfterIndices == {"create_vertex", "auxiliary_0", "auxiliary_1", "extrude"} \cup AfterExtrusion

Sample(sk) == Sections[sk[1]].samples[sk[2]]

\* C2: after the index pass every sample of the pruned tree has an arbor index
\* of 2 or more (0 and 1 are the auxiliary vertices), the arbor's first sample
\* has index 2, and two samples share an index exactly when they are the same
\* point (a section's first sample and its parent's last); every extrusion of
\* extrude_section starts at a vertex the graph already has and creates the
\* vertex whose index is samples[i + 1].arbor_idx; and once the extrusions are
\* done the vertex at every sample's arbor index lies at that sample's point,
\* while vertices 0 and 1 lie at no sample's point.
C2_ArborIndexAddressesVertex ==
    LET P == PrunedSamples(Sections, Limit)
    IN /\ (InCall /\ cpc \in AfterIndices) =>
              /\ \A sk \in P : Sample(sk).arbor_idx >= FirstArborIndex
              /\ (<<1, 1>> \in P => Sample(<<1, 1>>).arbor_idx = FirstArborIndex)
              /\ \A sk \in P : \A tk \in P :
                     (Sample(sk).arbor_idx = Sample(tk).arbor_idx)
                         <=> (Sample(sk).point = Sample(tk).point)
       /\ (InCall /\ cpc = "extrude" /\ extrusions # <<>>) =>
              LET call == Head(extrusions)
                  section == Sections[call.section]
              IN /\ call.idx = section.samples[call.i + 1].arbor_idx
                 /\ call.point = section.samples[call.i + 2].point
                 /\ call.idx \in 0..(Len(bmesh.verts) - 1)
                 /\ section.samples[call.i + 2].arbor_idx = Len(bmesh.verts)
       /\ (InCall /\ cpc \in AfterExtrusion) =>
              /\ \A sk \in P :
                     /\ Sample(sk).arbor_idx + 1 \in 1..Len(bmesh.verts)
                     /\ bmesh.verts[Sample(sk).arbor_idx + 1] = Sample(sk).point
              /\ \A sk \in P : \A v \in {1, 2} : bmesh.verts[v] # Sample(sk).point
       /\ (raised = "IndexError" => Len(Sections[1].samples) = 0)

\* C2's case: a root of three samples with two children of three samples each,
\* all within the limit, extruded
C2_Witness ==
    /\ InCall /\ cpc = "return"
    /\ Len(Sections) = 3
    /\ Len(Sections[1].children) = 2
    /\ \A s \in 1..3 : Len(Sections[s].samples) = 3
    /\ PrunedTree(Sections, Limit) = {1, 2, 3}
    /\ Len(bmesh.verts) = 9

\* every vertex that lies at a sample's point is the vertex of a sample of the
\* pruned tree, and every skin vertex past the two auxiliary ones whose radius
\* was written is addressed by the arbor index of a sample of the pruned tree
OnlyPrunedTreeInGraph ==
    /\ \A v \in 1..Len(bmesh.verts) :
           bmesh.verts[v][1] = "sample" =>
               \E sk \in PrunedSamples(Sections, Limit) : Sample(sk).point = bmesh.verts[v]
    /\ HasMesh =>
           \A v \in 3..Len(Mesh.skin_vertices) :
               Mesh.skin_vertices[v] # <<TemporaryRadius, TemporaryRadius>> =>
                   \E sk \in PrunedSamples(Sections, Limit) : Sample(sk).arbor_idx = v - 1

\* C3: whatever the limit, no vertex of the graph or the mesh corresponds to a
\* sample of a section outside the pruned tree, and no radius is written for one.
C3_PruningCompleteness == InCall => OnlyPrunedTreeInGraph

\* what holds of C3: the same, for a limit that does not prune the root section
C3_WhenRootWithinLimit ==
    (InCall /\ Sections[1].branching_order <= Limit) => OnlyPrunedTreeInGraph

\* the steps of one call, told from the state they change
IndexWritten == ArborOf(morphology', frame).sections # ArborOf(morphology, frame).sections
VertexAdded == Len(bmesh'.verts) > Len(bmesh.verts)
Converted == ~HasMesh /\ HasMesh'
RadiusWritten ==
    /\ HasMesh /\ arbor_mesh' = arbor_mesh
    /\ Mesh.skin_vertices # <<>>
    /\ scene'[arbor_mesh].skin_vertices # Mesh.skin_vertices
SkinApplied == HasMesh /\ arbor_mesh' = arbor_mesh /\ ~Mesh.skinned /\ scene'[arbor_mesh].skinned

\* C4: within one call of create_arbor_mesh the arbor indices are written before
\* the graph has any vertex; every vertex is added before the graph is converted
\* to a mesh; the conversion takes the finished graph; every radius is written
\* on the converted mesh while it carries the skin modifier, unapplied, and
\* after the last extrusion; the modifier is applied when no radius write is
\* left, and no radius is written after it.
C4_StepOrder ==
    [][(InCall /\ frame' = frame) =>
          /\ IndexWritten => bmesh = NoGraph /\ ~HasMesh
          /\ VertexAdded => ~HasMesh /\ ~HasMesh'
          /\ (bmesh # NoGraph => bmesh' # NoGraph) /\ (HasMesh => HasMesh')
          /\ Converted => /\ extrusions = <<>>
                          /\ Len(bmesh.verts) >= 1
                          /\ scene'[arbor_mesh'].verts = bmesh.verts
          /\ RadiusWritten => /\ "Skin" \in Mesh.modifiers
                              /\ ~Mesh.skinned
                              /\ extrusions = <<>>
                              /\ Mesh.verts = bmesh.verts
          /\ SkinApplied => /\ "Skin" \in Mesh.modifiers
                            /\ radius_updates = <<>>
                            /\ Mesh.skin_vertices[1] # <<TemporaryRadius, TemporaryRadius>>
                            /\ Mesh.skin_vertices[2] # <<TemporaryRadius, TemporaryRadius>>
          /\ (HasMesh /\ Mesh.skinned) =>
                 scene'[arbor_mesh].skin_vertices = Mesh.skin_vertices
      ]_vars

\* C4's case: a call that extruded a tree of three sections, wrote its radii and
\* applied the skin modifier
C4_Witness ==
    /\ InCall /\ cpc = "return" /\ HasMesh
    /\ Mesh.skinned
    /\ Cardinality(PrunedTree(Sections, Limit)) = 3
    /\ Len(bmesh.verts) >= 6

\* the radii the skin surface was computed from are those of the samples
RadiiOfSurface ==
    /\ \A sk \in PrunedSamples(Sections, Limit) :
           Mesh.surface[Sample(sk).arbor_idx + 1] = <<Sample(sk).radius, Sample(sk).radius>>
    /\ \A v \in {1, 2} :
           Mesh.surface[v] = <<Sections[1].samples[1].radius, Sections[1].samples[1].radius>>
    /\ \A v \in 1..Len(Mesh.surface) :
           Mesh.surface[v] # <<TemporaryRadius, TemporaryRadius>>

\* C5: when the skin modifier is applied, the vertex at the arbor index of every
\* sample of the pruned tree carries (r, r), r that sample's radius; vertices 0
\* and 1 carry the radius of the arbor's first sample; and no vertex is left
\* with the temporary radius.
C5_RadiiWhenSkinApplied ==
    (InCall /\ HasMesh /\ Mesh.skinned) => RadiiOfSurface

\* what holds of C5: the same, for a limit that does not prune the root section
C5_WhenRootWithinLimit ==
    (InCall /\ HasMesh /\ Mesh.skinned /\ Sections[1].branching_order <= Limit)
        => RadiiOfSurface

\* what nmv.logger is given when all goes well
ProgressMessages ==
    {"Building Arbors", "Apical dendrite", "Axon"}
        \cup {"Dendrite [" \o ToString(i) \o "]" : i \in 0..MaxDendrites}

\* C6: create_arbor_mesh on an arbor whose root section has no sample ends
\* without raising, with a graph of a single vertex and no edge, and a
\* diagnostic in the log.
C6_ZeroSamplesGiveSingleVertex ==
    (InCall /\ Len(Sections[1].samples) = 0 /\ cpc \in {"raised", "return"}) =>
        /\ raised = None
        /\ Len(bmesh.verts) = 1 /\ bmesh.edges = <<>>
        /\ \E k \in 1..Len(log) : log[k] \notin ProgressMessages

(***************************************************************************)
(* build_arbors over a whole morphology: SpecBuild.                        *)
(***************************************************************************)
\* the arbors of these morphologies: a root section of two samples, or a
\* malformed one (a root section without samples)
BuildArborSet ==
    {MakeArbor("distinct", [s \in {1} |-> 0], [s \in {1} |-> n]) : n \in {0, 2}}

OptionalArbors == {<<>>} \cup {<<a>> : a \in BuildArborSet}

\* the morphologies and options of SpecBuild
BuildInputs ==
    /\ \E ap \in OptionalArbors, ax \in OptionalArbors :
       \E n \in 0..MaxDendrites :
       \E ds \in [1..n -> BuildArborSet] :
          morphology = [apical_dendrite |-> ap, dendrites |-> ds, axon |-> ax]
    /\ \E ia \in BOOLEAN, ib \in BOOLEAN, ix \in BOOLEAN :
          options = [ignore_apical_dendrite |-> ia,
                     ignore_basal_dendrites |-> ib,
                     ignore_axon |-> ix,
                     apical_dendrite_branch_order |-> MaxOrder,
                     basal_dendrites_branch_order |-> MaxOrder,
                     axon_branch_order |-> MaxOrder]

\* the arbors build_arbors is to build: those present and not ignored
ToBuild ==
    (IF ~options.ignore_apical_dendrite /\ morphology.apical_dendrite # <<>>
     THEN {[slot |-> "apical", i |-> 0]} ELSE {})
    \cup (IF ~options.ignore_basal_dendrites
          THEN {[slot |-> "basal", i |-> k - 1] : k \in 1..Len(morphology.dendrites)}
          ELSE {})
    \cup (IF ~options.ignore_axon /\ morphology.axon # <<>>
          THEN {[slot |-> "axon", i |-> 0]} ELSE {})

MeshOf(a) == ArborOf(morphology, a).mesh

\* C7: when build_arbors has ended, with or without a failure in one arbor,
\* every other arbor it was to build has its mesh attached.
C7_FailureAbortsOnlyThatArbor ==
    bpc \in {"done", "raised"} =>
        Cardinality({a \in ToBuild : MeshOf(a) = None}) <= (IF raised # None THEN 1 ELSE 0)

\* what holds of C7: without a failure every arbor to build has its mesh
C7_WhenNothingRaises ==
    bpc = "done" => \A a \in ToBuild : MeshOf(a) # None

(***************************************************************************)
(* neurorender/core/loading.py                                             *)
(*                                                                         *)
(* A file name is <<stem, extension>>, standing for stem + '.' + extension *)
(* (a gid holds no '.').  An object name is a sequence of characters.      *)
(***************************************************************************)
\* 'neuron_%s.<ext>' % str(neuron.gid)
FileName(gid, ext) == <<"neuron_" \o ToString(gid), ext>>

\* input_file_name.split('.')[0]
ObjectName(input_file_name) == input_file_name[1]

\* the names an object of a .blend file may carry
Chars(name) ==
    CASE name = "soma" -> <<"s", "o", "m", "a">>
      [] name = "cs" -> <<"c", "s">>
      [] name = "axon" -> <<"a", "x", "o", "n">>
      [] name = "arcs" -> <<"a", "r", "c", "s">>

\* sub in name, on strings
Contains(name, sub) ==
    \E k \in 0..(Len(name) - Len(sub)) :
        \A j \in 1..Len(sub) : name[k + j] = sub[j]

NullObject == [null |-> TRUE, name |-> <<>>, texspace_size |-> <<0, 0, 0>>, imported |-> None]

StoredObject(name) ==
    [null |-> FALSE, name |-> Chars(name),
     texspace_size |-> <<StoredTexspace, StoredTexspace, StoredTexspace>>,
     imported |-> None]

\* what data_src.objects of a .blend file may hold once loaded (None: an
\* object the library could not load)
BlendBundles ==
    {<<>>,
     <<StoredObject("soma"), StoredObject("axon")>>,
     <<NullObject, StoredObject("cs"), StoredObject("arcs")>>}

Formats == {"blend", "ply", "obj"}
InputTypes == Formats \cup {"xyz"}

\* the result of a load_* function: what it returns, and the loader's state after it
Missing(st) ==
    [st EXCEPT !.returned = [kind |-> "None", items |-> <<>>],
               !.printed = Append(st.printed,
                                  "WARNING: File [%s] does NOT exist, Skipping ...")]

\* a host import primitive: the file is read, an object is added to the scene and
\* selected; the caller names it after the file
import_mesh(st, primitive, input_file_name) ==
    LET obj == [null |-> FALSE, name |-> ObjectName(input_file_name),
                texspace_size |-> <<StoredTexspace, StoredTexspace, StoredTexspace>>,
                imported |-> primitive]
    IN [st EXCEPT !.returned = [kind |-> "object", items |-> <<obj>>],
                  !.printed = Append(st.printed, "Importing"),
                  !.imports = Append(st.imports, [primitive |-> primitive,
                                                  file |-> input_file_name]),
                  !.loaded = Append(st.loaded, obj)]

load_obj_file(st, input_file_name) ==
    IF input_file_name \notin DOMAIN st.files
    THEN Missing(st)
    ELSE import_mesh(st, "bpy.ops.import_scene.obj", input_file_name)

load_ply_file(st, input_file_name) ==
    IF input_file_name \notin DOMAIN st.files
    THEN Missing(st)
    ELSE import_mesh(st, "bpy.ops.import_mesh.ply", input_file_name)

\* a loader that sets the texture space of every object, the soma's and the
\* helpers' too
adjust_texspace_of_every_object(obj) ==
    [obj EXCEPT !.texspace_size = <<TexspaceSize, TexspaceSize, TexspaceSize>>]

\* if not ('soma' in i_object.name or 'cs' in i_object.name): texspace_size = 10.0
adjust_texspace(obj) ==
    IF ~(Contains(obj.name, Chars("soma")) \/ Contains(obj.name, Chars("cs")))
    THEN [obj EXCEPT !.texspace_size = <<TexspaceSize, TexspaceSize, TexspaceSize>>]
    ELSE obj

\* for i_object in data_dst.objects: ... scene.objects.link(i_object)
RECURSIVE link_objects(_, _)
link_objects(objects, linked) ==
    IF objects = <<>> THEN linked
    ELSE IF Head(objects).null
    THEN link_objects(Tail(objects), linked)
    ELSE link_objects(Tail(objects), Append(linked, adjust_texspace(Head(objects))))

load_object_from_blend_file(st, input_file_name) ==
    IF input_file_name \notin DOMAIN st.files
    THEN Missing(st)
    ELSE LET objects == st.files[input_file_name]
         IN [st EXCEPT
                !.returned = [kind |-> "list",
                              items |-> [k \in 1..Len(objects) |->
                                            IF objects[k].null THEN objects[k]
                                            ELSE adjust_texspace(objects[k])]],
                !.printed = Append(st.printed, "Importing"),
                !.imports = Append(st.imports,
                                   [primitive |-> "bpy.data.libraries.load",
                                    file |-> input_file_name]),
                !.loaded = link_objects(objects, st.loaded)]

LoaderState == [files |-> files, loaded |-> loaded, imports |-> imports,
                printed |-> printed, returned |-> [kind |-> "unset", items |-> <<>>]]

\* the list [x] of a returned object or None
ListOf(returned) ==
    [kind |-> "list",
     items |-> IF returned.kind = "None" THEN <<NullObject>> ELSE returned.items]

\* one turn of the loop of load_neurons_membrane_meshes_into_scene, the loader
\* left in state st and the neuron given membrane_meshes
Turn(st, membrane_meshes) ==
    /\ neurons' = [neurons EXCEPT ![neuron_i + 1].membrane_meshes = membrane_meshes]
    /\ loaded' = st.loaded
    /\ imports' = st.imports
    /\ printed' = st.printed
    /\ neuron_i' = neuron_i + 1
    /\ UNCHANGED <<input_type, files, lpc>>
    /\ UNCHANGED <<builder_vars, verify_vars, reconstruct_vars>>

Gid == neurons[neuron_i + 1].gid

\* if input_type == 'blend':
LoadBlend ==
    /\ lpc = "loop"
    /\ neuron_i < Len(neurons)
    /\ input_type = "blend"
    /\ LET st == load_object_from_blend_file(LoaderState, FileName(Gid, "blend"))
       IN Turn(st, st.returned)

\* elif input_type == 'ply':
LoadPly ==
    /\ lpc = "loop"
    /\ neuron_i < Len(neurons)
    /\ input_type = "ply"
    /\ LET st == load_obj_file(LoaderState, FileName(Gid, "ply"))
       IN Turn(st, ListOf(st.returned))

\* elif input_type == 'obj':
LoadObj ==
    /\ lpc = "loop"
    /\ neuron_i < Len(neurons)
    /\ input_type = "obj"
    /\ LET st == load_ply_file(LoaderState, FileName(Gid, "obj"))
       IN Turn(st, ListOf(st.returned))

\* else: print('ERROR: Unrecognized input type [%s]' % input_type)
LoadUnrecognized ==
    /\ lpc = "loop"
    /\ neuron_i < Len(neurons)
    /\ input_type \notin Formats
    /\ printed' = Append(printed, "ERROR: Unrecognized input type")
    /\ neuron_i' = neuron_i + 1
    /\ UNCHANGED <<neurons, input_type, files, loaded, imports, lpc>>
    /\ UNCHANGED <<builder_vars, verify_vars, reconstruct_vars>>

\* the loop has gone through neurons_list: the function returns
LoaderReturns ==
    /\ lpc = "loop"
    /\ neuron_i = Len(neurons)
    /\ lpc' = "returned"
    /\ UNCHANGED <<neurons, input_type, files, loaded, imports, printed, neuron_i>>
    /\ UNCHANGED <<builder_vars, verify_vars, reconstruct_vars>>

InitLoad ==
    /\ InitBuilder
    /\ InitVerifyIdle
    /\ InitReconstructIdle
    /\ materials = UnsetMaterials
    /\ morphology = [apical_dendrite |-> <<>>, dendrites |-> <<>>, axon |-> <<>>]
    /\ options = [ignore_apical_dendrite |-> TRUE,
                  ignore_basal_dendrites |-> TRUE,
                  ignore_axon |-> TRUE,
                  apical_dendrite_branch_order |-> MaxOrder,
                  basal_dendrites_branch_order |-> MaxOrder,
                  axon_branch_order |-> MaxOrder]
    /\ \E n \in 0..MaxNeurons :
          /\ neurons = [k \in 1..n |->
                           [gid |-> k, membrane_meshes |-> [kind |-> "unset", items |-> <<>>]]]
          /\ \E present \in SUBSET {FileName(k, ext) : k \in 1..n, ext \in Formats} :
             \E bundle \in BlendBundles :
                files = [name \in present |->
                            IF name[2] = "blend" THEN bundle ELSE <<>>]
    /\ input_type \in InputTypes
    /\ loaded = <<>>
    /\ imports = <<>>
    /\ printed = <<>>
    /\ neuron_i = 0
    /\ lpc = "loop"

NextLoad ==
    \/ LoadBlend
    \/ LoadPly
    \/ LoadObj
    \/ LoadUnrecognized
    \/ LoaderReturns

SpecLoad == InitLoad /\ [][NextLoad]_vars

(***************************************************************************)
(* The claims about the loader, under SpecLoad.                            *)
(***************************************************************************)
\* the import primitive of a format
ImporterOf(format) ==
    CASE format = "blend" -> "bpy.data.libraries.load"
      [] format = "ply" -> "bpy.ops.import_mesh.ply"
      [] format = "obj" -> "bpy.ops.import_scene.obj"

\* the neurons the loop has been through
Processed == 1..neuron_i

\* the file of a neuron in the format asked for
AssetOf(k) == FileName(neurons[k].gid, input_type)

\* for every neuron gone through, an import was made of neuron_<gid>.<format>
\* exactly when that file exists, and of no other file
LooksForAssetOfFormat ==
    /\ \A k \in Processed :
           (AssetOf(k) \in DOMAIN files) <=> (\E c \in Range(imports) : c.file = AssetOf(k))
    /\ \A c \in Range(imports) : \E k \in Processed : c.file = AssetOf(k)

\* C8: for a format among blend, ply and obj the loader looks for
\* neuron_<gid>.<format> and, when it exists, loads it with the import
\* primitive of that same format.
C8_ImporterOfRequestedFormat ==
    input_type \in Formats =>
        /\ LooksForAssetOfFormat
        /\ \A c \in Range(imports) : c.primitive = ImporterOf(input_type)

\* what holds of C8: the file looked for is the one of the format asked for,
\* and a .blend file is loaded with the bundle loader
C8_FileOfRequestedFormat ==
    input_type \in Formats =>
        /\ LooksForAssetOfFormat
        /\ (input_type = "blend" =>
               \A c \in Range(imports) : c.primitive = ImporterOf(input_type))

\* neuron k, whose file is absent, left no import, no object, and a result
\* that is None or a list without a None entry
AbsentLeavesNothing(k) ==
    /\ \A c \in Range(imports) : c.file # AssetOf(k)
    /\ \A o \in Range(loaded) : o.imported # None => o.name # ObjectName(AssetOf(k))
    /\ neurons[k].membrane_meshes.kind \in {"None", "list"}
    /\ \A j \in 1..Len(neurons[k].membrane_meshes.items) :
           ~neurons[k].membrane_meshes.items[j].null

\* C9: for every neuron gone through whose file does not exist, no import
\* primitive was called on it, no object stands in the scene for it, and its
\* membrane_meshes is None or an empty list, never a list holding None; and the
\* loop goes on to the neurons after it.
C9_AbsentFileGivesNullOrEmpty ==
    input_type \in Formats =>
        /\ \A k \in Processed : AssetOf(k) \notin DOMAIN files => AbsentLeavesNothing(k)
        /\ lpc = "loop" => ENABLED NextLoad

\* what holds of C9: the same for the blend format, whose loader's None is
\* stored as it is
C9_BlendAbsentFileGivesNone ==
    input_type = "blend" =>
        /\ \A k \in Processed : AssetOf(k) \notin DOMAIN files => AbsentLeavesNothing(k)
        /\ lpc = "loop" => ENABLED NextLoad

\* C10: with a format that is none of blend, ply, obj, no import is made, the
\* scene and every neuron's membrane_meshes stay as they were, and when the
\* call has returned a diagnostic was printed.
C10_UnrecognizedFormatIsNoOp ==
    input_type \notin Formats =>
        /\ imports = <<>>
        /\ loaded = <<>>
        /\ \A k \in 1..Len(neurons) : neurons[k].membrane_meshes.kind = "unset"
        /\ lpc = "returned" =>
               \E j \in 1..Len(printed) : printed[j] = "ERROR: Unrecognized input type"

\* what holds of C10: the same, for a list of at least one neuron
C10_WhenListNotEmpty ==
    (input_type \notin Formats /\ Len(neurons) >= 1) =>
        /\ imports = <<>>
        /\ loaded = <<>>
        /\ \A k \in 1..Len(neurons) : neurons[k].membrane_meshes.kind = "unset"
        /\ lpc = "returned" =>
               \E j \in 1..Len(printed) : printed[j] = "ERROR: Unrecognized input type"

\* the name of an object tells it is a soma or a cross-section helper
IdentifiedAsSomaOrHelper(obj) ==
    Contains(obj.name, Chars("soma")) \/ Contains(obj.name, Chars("cs"))

\* the objects other than None stored in the .blend file of neuron k
StoredObjectsOf(k) ==
    IF FileName(neurons[k].gid, "blend") \in DOMAIN files
    THEN SelectSeq(files[FileName(neurons[k].gid, "blend")], LAMBDA o : ~o.null)
    ELSE <<>>

\* the objects other than None of the files of neurons 1..k, in the order of loading
RECURSIVE StoredObjects(_)
StoredObjects(k) ==
    IF k = 0 THEN <<>> ELSE StoredObjects(k - 1) \o StoredObjectsOf(k)

\* C11: with the blend format, the objects linked into the scene are the objects
\* other than None of the files gone through, each one once and in order; one
\* whose name tells neither a soma nor a cross-section helper is linked with a
\* texture space of (10, 10, 10), and a soma or helper with the texture space
\* it was stored with.
C11_TexspaceOfLinkedObjects ==
    input_type = "blend" =>
        LET stored == StoredObjects(neuron_i)
        IN /\ Len(loaded) = Len(stored)
           /\ \A j \in 1..Len(stored) :
                 /\ loaded[j].name = stored[j].name
                 /\ loaded[j].texspace_size =
                        IF IdentifiedAsSomaOrHelper(stored[j])
                        THEN stored[j].texspace_size
                        ELSE <<TexspaceSize, TexspaceSize, TexspaceSize>>

\* two .blend files were loaded, each with a soma left as stored and another
\* object set to (10, 10, 10)
C11_Witness ==
    /\ input_type = "blend"
    /\ lpc = "returned"
    /\ Len(loaded) >= 4
    /\ \E j \in 1..Len(loaded) :
          /\ IdentifiedAsSomaOrHelper(loaded[j])
          /\ loaded[j].texspace_size = <<StoredTexspace, StoredTexspace, StoredTexspace>>
    /\ \E j \in 1..Len(loaded) :
          /\ ~IdentifiedAsSomaOrHelper(loaded[j])
          /\ loaded[j].texspace_size = <<TexspaceSize, TexspaceSize, TexspaceSize>>

(***************************************************************************)
(* SkinningBuilder.verify_morphology_skeleton                              *)
(*                                                                         *)
(* The operations of nmv.skeleton.ops are the host package's; what the     *)
(* method decides is which of them it applies to the morphology and in     *)
(* what order, and that is what `operations' records.                      *)
(***************************************************************************)
\* the values of nmv.enums.Meshing.Edges
EdgeStyles == {"SHARP", "SMOOTH"}

\* a method whose statements come in another order: the labeling first, the
\* removal of the samples inside the soma last
NextOperationLabelFirst(pc) ==
    CASE pc = "label_primary_and_secondary_sections" -> "resample_sections"
      [] pc = "resample_sections" -> "update_arbors_connection_to_soma"
      [] pc = "update_arbors_connection_to_soma" -> "remove_samples_inside_soma"
      [] pc = "remove_samples_inside_soma" -> "returned"

\* the statement of verify_morphology_skeleton that follows the one at pc
NextOperation(pc) ==
    CASE pc = "remove_samples_inside_soma" -> "resample_sections"
      [] pc = "resample_sections" -> "update_arbors_connection_to_soma"
      [] pc = "update_arbors_connection_to_soma" -> "label_primary_and_secondary_sections"
      [] pc = "label_primary_and_secondary_sections" -> "returned"

\* the statement the method starts with: the one no statement is followed by
FirstOperation ==
    CHOOSE pc \in {"remove_samples_inside_soma", "resample_sections",
                   "update_arbors_connection_to_soma",
                   "label_primary_and_secondary_sections"} :
        \A q \in {"remove_samples_inside_soma", "resample_sections",
                  "update_arbors_connection_to_soma",
                  "label_primary_and_secondary_sections"} : NextOperation(q) # pc

\* one statement of the method: the operation is applied to self.morphology
Operation(pc) ==
    /\ vpc = pc
    /\ operations' = Append(operations, pc)
    /\ vpc' = NextOperation(pc)
    /\ UNCHANGED edges
    /\ UNCHANGED <<builder_vars, loader_vars, reconstruct_vars>>

\* apply_operation_to_morphology(morphology, remove_samples_inside_soma)
RemoveSamplesInsideSoma == Operation("remove_samples_inside_soma")

\* if self.options.mesh.edges == nmv.enums.Meshing.Edges.SMOOTH:
\*     apply_operation_to_morphology(morphology, resample_sections)
ResampleSections ==
    /\ edges = "SMOOTH"
    /\ Operation("resample_sections")

\* the same test, failing: nothing is applied
SkipResampling ==
    /\ vpc = "resample_sections"
    /\ edges # "SMOOTH"
    /\ vpc' = NextOperation(vpc)
    /\ UNCHANGED <<edges, operations>>
    /\ UNCHANGED <<builder_vars, loader_vars, reconstruct_vars>>

\* update_arbors_connection_to_soma(morphology)
UpdateArborsConnectionToSoma == Operation("update_arbors_connection_to_soma")

\* apply_operation_to_morphology(morphology,
\*     label_primary_and_secondary_sections_based_on_angles)
LabelPrimaryAndSecondarySections == Operation("label_primary_and_secondary_sections")

\* verify_morphology_skeleton called on a builder of any morphology, with
\* either edge style
InitVerify ==
    /\ InitBuilder
    /\ InitLoaderIdle
    /\ InitReconstructIdle
    /\ materials = UnsetMaterials
    /\ \E ap \in OptionalArbors, ax \in OptionalArbors :
       \E n \in 0..MaxDendrites :
       \E ds \in [1..n -> BuildArborSet] :
          morphology = [apical_dendrite |-> ap, dendrites |-> ds, axon |-> ax]
    /\ options = [ignore_apical_dendrite |-> FALSE,
                  ignore_basal_dendrites |-> FALSE,
                  ignore_axon |-> FALSE,
                  apical_dendrite_branch_order |-> MaxOrder,
                  basal_dendrites_branch_order |-> MaxOrder,
                  axon_branch_order |-> MaxOrder]
    /\ edges \in EdgeStyles
    /\ vpc = FirstOperation
    /\ operations = <<>>

NextVerify ==
    \/ RemoveSamplesInsideSoma
    \/ ResampleSections
    \/ SkipResampling
    \/ UpdateArborsConnectionToSoma
    \/ LabelPrimaryAndSecondarySections

SpecVerify == InitVerify /\ [][NextVerify]_vars

(***************************************************************************)
(* SkinningBuilder.reconstruct_mesh: the materials, the verification of    *)
(* the skeleton, the soma, the arbors.  The soma and the functions of      *)
(* nmv.builders.common are the host package's; the soma is no part of the  *)
(* state.                                                                  *)
(***************************************************************************)
\* nmv.builders.common.create_skeleton_materials(builder=self), and the call of
\* self.verify_morphology_skeleton()
CreateSkeletonMaterials ==
    /\ rpc = "create_skeleton_materials"
    /\ materials' = SkeletonMaterials
    /\ rpc' = "verify_morphology_skeleton"
    /\ vpc' = FirstOperation
    /\ UNCHANGED <<edges, operations>>
    /\ UNCHANGED <<builder_vars, loader_vars>>

\* verify_morphology_skeleton has returned:
\* nmv.builders.common.modify_morphology_skeleton()
ModifyMorphologySkeleton ==
    /\ rpc = "verify_morphology_skeleton"
    /\ vpc = "returned"
    /\ rpc' = "reconstruct_soma_mesh"
    /\ UNCHANGED materials
    /\ UNCHANGED <<builder_vars, loader_vars, verify_vars>>

\* nmv.builders.common.reconstruct_soma_mesh(builder=self), and the call of
\* self.build_arbors()
ReconstructSomaMesh ==
    /\ rpc = "reconstruct_soma_mesh"
    /\ rpc' = "build_arbors"
    /\ bpc' = "start"
    /\ UNCHANGED materials
    /\ UNCHANGED <<morphology, options, dend_i, frame, cpc, bmesh, arbor_mesh,
                   extrusions, radius_updates, scene, active_object, raised, log>>
    /\ UNCHANGED <<loader_vars, verify_vars>>

\* build_arbors has returned: nmv.logger.header('Done!')
Done ==
    /\ rpc = "build_arbors"
    /\ bpc = "done"
    /\ log' = Append(log, "Done!")
    /\ rpc' = "returned"
    /\ UNCHANGED materials
    /\ UNCHANGED <<morphology, options, bpc, dend_i, frame, cpc, bmesh, arbor_mesh,
                   extrusions, radius_updates, scene, active_object, raised>>
    /\ UNCHANGED <<loader_vars, verify_vars>>

\* a builder on which build_arbors is called, its material lists as __init__
\* leaves them, empty, or set; or one on which reconstruct_mesh is called
InitBuild ==
    /\ InitLoaderIdle
    /\ InitBuilderState
    /\ BuildInputs
    /\ \/ /\ bpc = "start"
          /\ InitVerifyIdle
          /\ InitReconstructIdle
          /\ materials \in {UnsetMaterials, EmptyMaterials, SkeletonMaterials}
       \/ /\ bpc = "idle"
          /\ edges \in EdgeStyles
          /\ vpc = "idle"
          /\ operations = <<>>
          /\ rpc = "create_skeleton_materials"
          /\ materials = UnsetMaterials

NextBuild ==
    \/ Next
    \/ NextVerify
    \/ CreateSkeletonMaterials
    \/ ModifyMorphologySkeleton
    \/ ReconstructSomaMesh
    \/ Done

SpecBuild == InitBuild /\ [][NextBuild]_vars

\* the operations the claim gives for an edge style, in its order
OperationsOf(style) ==
    IF style = "SMOOTH"
    THEN <<"remove_samples_inside_soma", "resample_sections",
           "update_arbors_connection_to_soma", "label_primary_and_secondary_sections">>
    ELSE <<"remove_samples_inside_soma",
           "update_arbors_connection_to_soma", "label_primary_and_secondary_sections">>

\* C12: the operations verify_morphology_skeleton has applied are at any time
\* the first ones of: removal of the samples inside the soma, resampling (with
\* the smooth edge style, and only with it), soma connectivity, primary and
\* secondary labeling; and when it returns they are all of these, each once.
C12_OperationsInOrder ==
    /\ Len(operations) <= Len(OperationsOf(edges))
    /\ operations = SubSeq(OperationsOf(edges), 1, Len(operations))
    /\ vpc = "returned" => operations = OperationsOf(edges)

\* the method has returned, with the sharp edge style, and so without resampling
C12_Witness ==
    /\ vpc = "returned"
    /\ edges = "SHARP"
    /\ Len(operations) = 3
    /\ \A j \in 1..Len(operations) : operations[j] # "resample_sections"

(***************************************************************************)
(* SkinningBuilder.extrude_auxiliary_section_from_soma_center_to_arbor: a  *)
(* method create_arbor_mesh does not call, for a caller that has a graph   *)
(* and the root section of an arbor.                                       *)
(***************************************************************************)
\* point_0 + direction * step * i: the point i steps of number_samples along
\* the way from the origin to the arbor's first sample
Along(i, number_samples) == <<"along", i, number_samples>>

\* for i in range(from, number_samples - 1):
\*     extrude_vertex_towards_point(arbor_bmesh_object, i - 1, extrusion_point)
RECURSIVE auxiliary_section_extrusions(_, _, _)
auxiliary_section_extrusions(g, from, number_samples) ==
    IF from >= number_samples - 1
    THEN [raised |-> None, graph |-> g]
    ELSE LET r == extrude_vertex_towards_point(g, from - 1, Along(from, number_samples))
         IN IF r.raised # None THEN r
            ELSE auxiliary_section_extrusions(r.graph, from + 1, number_samples)

\* point_1 = arbor.samples[0].point; step = distance / number_samples; the loop
extrude_auxiliary_section_from_soma_center_to_arbor(arbor, g, number_samples) ==
    IF Len(arbor.samples) = 0 THEN [raised |-> "IndexError", graph |-> g]
    ELSE IF number_samples = 0 THEN [raised |-> "ZeroDivisionError", graph |-> g]
    ELSE auxiliary_section_extrusions(g, 1, number_samples)

\* a call of the method on the builder's graph and its first basal dendrite
ExtrudeAuxiliarySection ==
    /\ bpc = "idle" /\ cpc = "idle"
    /\ raised = None
    /\ Len(bmesh.verts) <= 1
    /\ \E number_samples \in 0..MaxAuxiliarySamples :
          LET r == extrude_auxiliary_section_from_soma_center_to_arbor(
                       morphology.dendrites[1].sections[1], bmesh, number_samples)
          IN /\ bmesh' = r.graph
             /\ raised' = r.raised
    /\ UNCHANGED <<morphology, options, bpc, dend_i, frame, cpc, arbor_mesh,
                   extrusions, radius_updates, scene, active_object, log>>
    /\ UNCHANGED <<loader_vars, verify_vars, reconstruct_vars>>

\* a builder with one basal dendrite, and a graph still empty or of one vertex
InitAuxiliary ==
    /\ bpc = "idle"
    /\ InitBuilderState
    /\ InitLoaderIdle
    /\ InitVerifyIdle
    /\ InitReconstructIdle
    /\ materials = UnsetMaterials
    /\ \E a \in BuildArborSet :
          morphology = [apical_dendrite |-> <<>>, dendrites |-> <<a>>, axon |-> <<>>]
    /\ options = [ignore_apical_dendrite |-> FALSE,
                  ignore_basal_dendrites |-> FALSE,
                  ignore_axon |-> FALSE,
                  apical_dendrite_branch_order |-> MaxOrder,
                  basal_dendrites_branch_order |-> MaxOrder,
                  axon_branch_order |-> MaxOrder]

\* the caller's nmv.bmeshi.create_vertex(), before it calls the method
CallerCreatesVertex ==
    /\ bpc = "idle" /\ cpc = "idle"
    /\ raised = None
    /\ bmesh = NoGraph
    /\ bmesh' = create_vertex
    /\ UNCHANGED <<morphology, options, bpc, dend_i, frame, cpc, arbor_mesh,
                   extrusions, radius_updates, scene, active_object, raised, log>>
    /\ UNCHANGED <<loader_vars, verify_vars, reconstruct_vars>>

NextAuxiliary ==
    \/ ExtrudeAuxiliarySection
    \/ CallerCreatesVertex

SpecAuxiliary == InitAuxiliary /\ [][NextAuxiliary]_vars

(***************************************************************************)
(* The two traversals of an arbor, by the sections they visit: the calls   *)
(* of extrude_section made by extrude_arbor, and the calls of              *)
(* update_section_samples_radii made by update_arbor_samples_radii.        *)
(***************************************************************************)
RECURSIVE extrude_arbor_visits(_, _, _)
RECURSIVE extrude_arbor_visits_children(_, _, _)
RECURSIVE update_arbor_samples_radii_visits(_, _, _)
RECURSIVE update_arbor_samples_radii_visits_children(_, _, _)

\* a loop over the children that takes the last child first
extrude_arbor_visits_last_child_first(secs, kids, max_branching_order) ==
    IF kids = <<>> THEN <<>>
    ELSE extrude_arbor_visits(secs, Last(kids), max_branching_order)
            \o extrude_arbor_visits_children(secs, SubSeq(kids, 1, Len(kids) - 1),
                                             max_branching_order)

\* if root.branching_order > max_branching_order: return
\* self.extrude_section(arbor_bmesh_object, root)
\* for child in root.children: self.extrude_arbor(...)
extrude_arbor_visits(secs, root, max_branching_order) ==
    IF secs[root].branching_order > max_branching_order
    THEN <<>>
    ELSE <<root>>
            \o extrude_arbor_visits_children(secs, secs[root].children,
                                             max_branching_order)

extrude_arbor_visits_children(secs, kids, max_branching_order) ==
    IF kids = <<>> THEN <<>>
    ELSE extrude_arbor_visits(secs, Head(kids), max_branching_order)
            \o extrude_arbor_visits_children(secs, Tail(kids), max_branching_order)

\* if root.branching_order > max_branching_order: return
\* self.update_section_samples_radii(arbor_mesh, root)
\* for child in root.children: self.update_arbor_samples_radii(...)
update_arbor_samples_radii_visits(secs, root, max_branching_order) ==
    IF secs[root].branching_order > max_branching_order
    THEN <<>>
    ELSE <<root>>
            \o update_arbor_samples_radii_visits_children(secs, secs[root].children,
                                                          max_branching_order)

update_arbor_samples_radii_visits_children(secs, kids, max_branching_order) ==
    IF kids = <<>> THEN <<>>
    ELSE update_arbor_samples_radii_visits(secs, Head(kids), max_branching_order)
            \o update_arbor_samples_radii_visits_children(secs, Tail(kids),
                                                          max_branching_order)

\* the sections from the root down to s
RECURSIVE PathTo(_, _)
PathTo(secs, s) ==
    IF secs[s].parent = 0 THEN <<s>> ELSE Append(PathTo(secs, secs[s].parent), s)

\* the place of a section in its parent's list of children
ChildPosition(secs, s) ==
    CHOOSE k \in 1..Len(secs[secs[s].parent].children) :
        secs[secs[s].parent].children[k] = s

\* s comes before t in pre-order: s is an ancestor of t, or, where the paths to
\* s and to t part, the child towards s is listed before the child towards t
PreOrderBefore(secs, s, t) ==
    LET ps == PathTo(secs, s)
        pt == PathTo(secs, t)
        same == {k \in 1..Len(ps) : k <= Len(pt) /\ \A j \in 1..k : ps[j] = pt[j]}
        c == Cardinality(same)
    IN IF c = Len(ps) THEN c < Len(pt)
       ELSE IF c = Len(pt) THEN FALSE
       ELSE ChildPosition(secs, ps[c + 1]) < ChildPosition(secs, pt[c + 1])

\* visits holds every section of the pruned tree once, in pre-order
IsPreOrderOfPrunedTree(visits, secs, L) ==
    /\ Range(visits) = PrunedTree(secs, L)
    /\ Len(visits) = Cardinality(PrunedTree(secs, L))
    /\ \A i \in 1..Len(visits) : \A j \in (i + 1)..Len(visits) :
           PreOrderBefore(secs, visits[i], visits[j])

\* the sections of the writes or extrusions of a traversal, each once, in the
\* order they come
RECURSIVE SectionsOf(_)
SectionsOf(items) ==
    IF items = <<>> THEN <<>>
    ELSE LET rest == SectionsOf(Tail(items))
         IN IF rest # <<>> /\ Head(rest) = Head(items).section
            THEN rest
            ELSE <<Head(items).section>> \o rest

\* C13: for the arbor and the limit of a call, extrude_arbor and
\* update_arbor_samples_radii visit the same sections in the same sequence,
\* which is the pre-order of the pruned tree, siblings in the order of the
\* child list; the extrusions and the radius writes they make come section by
\* section in that sequence.
C13_SameTraversal ==
    InCall =>
        LET extruded == extrude_arbor_visits(Sections, 1, Limit)
            updated == update_arbor_samples_radii_visits(Sections, 1, Limit)
        IN /\ extruded = updated
           /\ IsPreOrderOfPrunedTree(extruded, Sections, Limit)
           /\ SectionsOf(extrude_arbor(Sections, 1, Limit))
                 = SelectSeq(extruded, LAMBDA s : Len(Sections[s].samples) >= 2)
           /\ SectionsOf(update_arbor_samples_radii(Sections, 1, Limit))
                 = SelectSeq(updated, LAMBDA s : VisitedSampleCount(Sections[s]) >= 1)

\* both traversals have run on an arbor of three sections of which the limit
\* prunes one and keeps two
C13_Witness ==
    /\ InCall
    /\ cpc = "apply"
    /\ Len(Sections) = 3
    /\ Len(extrude_arbor_visits(Sections, 1, Limit)) = 2
    /\ Len(update_arbor_samples_radii_visits(Sections, 1, Limit)) = 2

(***************************************************************************)
(* The attachment of the meshes by build_arbors, under SpecBuild.          *)
(***************************************************************************)
\* the arbor nodes of the morphology
Nodes ==
    (IF morphology.apical_dendrite # <<>> THEN {[slot |-> "apical", i |-> 0]} ELSE {})
    \cup {[slot |-> "basal", i |-> k - 1] : k \in 1..Len(morphology.dendrites)}
    \cup (IF morphology.axon # <<>> THEN {[slot |-> "axon", i |-> 0]} ELSE {})

\* the arbor node the running call of create_arbor_mesh is for
Running == [slot |-> frame.slot, i |-> frame.i]

\* create_arbor_mesh has made every step on the mesh for the arbor of frame f
Complete(mesh, f) ==
    /\ mesh.name = f.arbor_name
    /\ mesh.skinned
    /\ "Skin" \notin mesh.modifiers
    /\ mesh.smooth_level = SmoothLevel
    /\ mesh.shade_smooth
    /\ mesh.material = f.arbor_material

\* a step writes the mesh reference of a node
MeshWritten(node) == ArborOf(morphology', node).mesh # ArborOf(morphology, node).mesh

\* what every step of build_arbors keeps to
AttachesOnlyCompleteMesh ==
    /\ Len(morphology'.apical_dendrite) = Len(morphology.apical_dendrite)
    /\ Len(morphology'.dendrites) = Len(morphology.dendrites)
    /\ Len(morphology'.axon) = Len(morphology.axon)
    /\ \A node \in Nodes :
          MeshWritten(node) =>
              /\ node = Running
              /\ node \in ToBuild
              /\ cpc = "return"
              /\ raised = None
              /\ HasMesh
              /\ ArborOf(morphology', node).mesh = arbor_mesh
              /\ Complete(Mesh, frame)

\* C14: a step of build_arbors writes the mesh reference of an arbor node only
\* when create_arbor_mesh has returned for that same arbor without raising,
\* the mesh skinned, smoothed, shade-smoothed and given its material; the node
\* is one build_arbors was to build, and no arbor appears or disappears.
C14_AttachAfterCompletion == [][AttachesOnlyCompleteMesh]_vars

\* the apical dendrite has its mesh; the basal dendrites, ignored, have none;
\* the axon's construction failed once its mesh object existed, and the axon
\* has no mesh
C14_Witness ==
    /\ bpc = "raised"
    /\ frame.slot = "axon"
    /\ HasMesh
    /\ morphology.axon[1].mesh = None
    /\ morphology.apical_dendrite # <<>>
    /\ morphology.apical_dendrite[1].mesh # None
    /\ options.ignore_basal_dendrites
    /\ Len(morphology.dendrites) >= 1
    /\ \A k \in 1..Len(morphology.dendrites) : morphology.dendrites[k].mesh = None

====
